---------------------------- MODULE Spec2Model ----------------------------
(***************************************************************************)
(* Alias trigger resolution, sticky auto-proxy, the webhook pool and the   *)
(* on_message dispatcher of the Quest Keeper bot (src/main.py and          *)
(* src/bot/alias_manager.py).                                              *)
(*                                                                         *)
(* Text is a sequence of one-character strings.  A coroutine is a process  *)
(* whose position (pc) moves from one awaited platform request to the      *)
(* next: the code between two awaits runs without interleaving, as it      *)
(* does on the asyncio event loop.                                         *)
(***************************************************************************)
EXTENDS Integers, Sequences, FiniteSets, TLC

\* ------------------------------------------------------------------ bounds
MaxTextLen == 2
NumTasks == 3
MaxFaults == 2
MaxMessages == 2
MaxCalls == 2
MaxTriggerTextLen == 4

\* ------------------------------------------------------ program constants
\* seconds after which a failure notice deletes itself
NoticeDeleteAfter == 10
\* "if len(webhooks) >= 15" in _cleanup_old_webhooks
HardCap == 15
\* "[:5]": unrecognized webhooks deleted at most per cleanup
MaxOtherDeletes == 5
\* discord error code "Maximum webhooks reached"
QuotaCode == 30007

\* ------------------------------------------------------------------- text
\* str.lower() on the characters the model uses
LowerChar(c) ==
    CASE c = "K" -> "k"
      [] c = "M" -> "m"
      [] c = "A" -> "a"
      [] c = "H" -> "h"
      [] c = "E" -> "e"
      [] c = "G" -> "g"
      [] c = "I" -> "i"
      [] OTHER -> c

Lower(s) == [i \in 1..Len(s) |-> LowerChar(s[i])]

StartsWith(s, p) == Len(p) <= Len(s) /\ SubSeq(s, 1, Len(p)) = p

EndsWith(s, p) == Len(p) <= Len(s) /\ SubSeq(s, Len(s) - Len(p) + 1, Len(s)) = p

IsSpace(c) == c \in {" ", "\n"}

RECURSIVE LStrip(_)
LStrip(s) == IF s # <<>> /\ IsSpace(Head(s)) THEN LStrip(Tail(s)) ELSE s

RECURSIVE RStrip(_)
RStrip(s) ==
    IF s # <<>> /\ IsSpace(s[Len(s)]) THEN RStrip(SubSeq(s, 1, Len(s) - 1)) ELSE s

\* str.strip()
Strip(s) == RStrip(LStrip(s))

\* str.split('\n'): the pieces between newlines, empty pieces kept
RECURSIVE SplitFrom(_, _)
SplitFrom(s, cur) ==
    IF s = <<>> THEN <<cur>>
    ELSE IF Head(s) = "\n" THEN <<cur>> \o SplitFrom(Tail(s), <<>>)
    ELSE SplitFrom(Tail(s), Append(cur, Head(s)))

SplitLines(s) == SplitFrom(s, <<>>)

\* a matcher that knows the prefix rule only
MatchesTriggerByPrefix(message, trigger) == StartsWith(Lower(message), Lower(trigger))

\* AliasManager._matches_trigger
_matches_trigger(message, trigger) ==
    IF message = <<>> \/ trigger = <<>> THEN FALSE
    ELSE LET ml == Lower(message)
             tl == Lower(trigger)
         IN  IF StartsWith(tl, <<"[">>) /\ EndsWith(tl, <<"]">>)
               THEN StartsWith(ml, <<"[">>) /\ EndsWith(ml, <<"]">>) /\ Len(message) > 2
             ELSE IF StartsWith(tl, <<"(">>) /\ EndsWith(tl, <<")">>)
               THEN StartsWith(ml, <<"(">>) /\ EndsWith(ml, <<")">>) /\ Len(message) > 2
             ELSE IF StartsWith(ml, tl) THEN TRUE
             ELSE tl = ml

\* an extraction that drops the trigger's length and does not trim
ExtractContentUntrimmed(message, trigger) ==
    SubSeq(message, Len(trigger) + 1, Len(message))

\* AliasManager._extract_content
_extract_content(message, trigger) ==
    IF message = <<>> \/ trigger = <<>> THEN message
    ELSE LET ml == Lower(message)
             tl == Lower(trigger)
             inner == Strip(SubSeq(message, 2, Len(message) - 1))
         IN  IF StartsWith(tl, <<"[">>) /\ EndsWith(tl, <<"]">>)
               THEN IF StartsWith(ml, <<"[">>) /\ EndsWith(ml, <<"]">>)
                      THEN inner ELSE message
             ELSE IF StartsWith(tl, <<"(">>) /\ EndsWith(tl, <<")">>)
               THEN IF StartsWith(ml, <<"(">>) /\ EndsWith(ml, <<")">>)
                      THEN inner ELSE message
             ELSE IF tl = ml THEN <<>>
             ELSE IF StartsWith(ml, tl)
               THEN Strip(SubSeq(message, Len(trigger) + 1, Len(message)))
             ELSE message


\* ------------------------------------------------------------ persona store
\* Python's None for an alias, and for a guild (a direct message)
NoAlias == [id |-> "none", user_id |-> "none", guild_id |-> "none",
            name |-> <<>>, trigger |-> <<>>, group_name |-> "none"]
NoGuild == "none"

Users == {"u1", "u2"}
Guilds == {"g1", "g2"}

\* character_aliases rows in store order
Kay  == [id |-> "p1", user_id |-> "u1", guild_id |-> "g1",
         name |-> <<"K", "a", "y">>, trigger |-> <<"k", ":">>, group_name |-> "none"]
Em   == [id |-> "p2", user_id |-> "u1", guild_id |-> "g1",
         name |-> <<"E", "m">>, trigger |-> <<"m">>, group_name |-> "none"]
Mira == [id |-> "p3", user_id |-> "u2", guild_id |-> "g1",
         name |-> <<"M", "i", "r", "a">>, trigger |-> <<"r", ":">>, group_name |-> "none"]
Kay2 == [id |-> "p4", user_id |-> "u2", guild_id |-> "g1",
         name |-> <<"K", "a", "y">>, trigger |-> <<"[", "x", "]">>, group_name |-> "npc"]
Gee  == [id |-> "p5", user_id |-> "u1", guild_id |-> "g2",
         name |-> <<"G", "e", "e">>, trigger |-> <<"k", ":">>, group_name |-> "none"]

Ann  == [id |-> "p6", user_id |-> "u1", guild_id |-> "g1",
         name |-> <<"A", "n", "n">>, trigger |-> <<"m", "a">>, group_name |-> "none"]
Moe  == [id |-> "p7", user_id |-> "u2", guild_id |-> "g1",
         name |-> <<"M", "o", "e">>, trigger |-> <<"m">>, group_name |-> "none"]

InitialAliases == <<Kay, Em, Mira, Kay2, Gee, Ann, Moe>>

\* shared_groups joined with shared_group_permissions, in store order
SharedGroups ==
    << [viewer |-> "u1", guild_id |-> "g1", is_active |-> TRUE, is_single_alias |-> TRUE,
        single_alias_id |-> "p3", owner_id |-> "u2", group_name |-> "none"],
       [viewer |-> "u1", guild_id |-> "g1", is_active |-> TRUE, is_single_alias |-> FALSE,
        single_alias_id |-> "none", owner_id |-> "u2", group_name |-> "npc"],
       [viewer |-> "u2", guild_id |-> "g1", is_active |-> FALSE, is_single_alias |-> TRUE,
        single_alias_id |-> "p1", owner_id |-> "u1", group_name |-> "none"],
       [viewer |-> "u1", guild_id |-> "g1", is_active |-> TRUE, is_single_alias |-> TRUE,
        single_alias_id |-> "p7", owner_id |-> "u2", group_name |-> "none"] >>

\* alias_overrides rows in store order
AliasOverrides ==
    << [user_id |-> "u1", guild_id |-> "g1", original_alias_id |-> "p3",
        personal_trigger |-> <<"m", ".">>, is_active |-> TRUE],
       [user_id |-> "u1", guild_id |-> "g1", original_alias_id |-> "p4",
        personal_trigger |-> <<"(", "x", ")">>, is_active |-> TRUE],
       [user_id |-> "u2", guild_id |-> "g1", original_alias_id |-> "p1",
        personal_trigger |-> <<"k", ":">>, is_active |-> FALSE] >>

\* AliasManager.get_user_aliases
get_user_aliases(als, user_id, guild_id) ==
    SelectSeq(als, LAMBDA a : a.user_id = user_id /\ a.guild_id = guild_id)

RECURSIVE SharedRows(_, _)
\* the loop over shared_groups in _get_shared_aliases_for_user
SharedRows(groups, als) ==
    IF groups = <<>> THEN <<>>
    ELSE LET g == Head(groups)
             here == IF g.is_single_alias /\ g.single_alias_id # "none"
                       THEN SelectSeq(als, LAMBDA a : a.id = g.single_alias_id)
                       ELSE SelectSeq(als, LAMBDA a : /\ a.user_id = g.owner_id
                                                      /\ a.guild_id = g.guild_id
                                                      /\ a.group_name = g.group_name)
         IN  here \o SharedRows(Tail(groups), als)

\* AliasManager._get_shared_aliases_for_user (the "alias" of each entry)
_get_shared_aliases_for_user(als, user_id, guild_id) ==
    SharedRows(SelectSeq(SharedGroups, LAMBDA g : /\ g.viewer = user_id
                                                  /\ g.guild_id = guild_id
                                                  /\ g.is_active),
               als)

RECURSIVE OverrideRows(_, _)
\* the join of alias_overrides with character_aliases in _get_user_overrides
OverrideRows(rows, als) ==
    IF rows = <<>> THEN <<>>
    ELSE LET o == Head(rows)
             hit == SelectSeq(als, LAMBDA a : a.id = o.original_alias_id)
         IN  [i \in 1..Len(hit) |->
                [personal_trigger |-> o.personal_trigger, alias |-> hit[i]]]
             \o OverrideRows(Tail(rows), als)

\* AliasManager._get_user_overrides
_get_user_overrides(als, user_id, guild_id) ==
    OverrideRows(SelectSeq(AliasOverrides, LAMBDA o : /\ o.user_id = user_id
                                                      /\ o.guild_id = guild_id
                                                      /\ o.is_active),
                 als)

\* AliasManager.get_alias_by_name: the first row whose name matches, ignoring case
get_alias_by_name(als, user_id, guild_id, name) ==
    LET hit == SelectSeq(als, LAMBDA a : /\ a.user_id = user_id
                                         /\ a.guild_id = guild_id
                                         /\ Lower(a.name) = Lower(name))
    IN  IF hit = <<>> THEN NoAlias ELSE Head(hit)


\* ------------------------------------------------------------- resolution
\* index of the first element of seq that passes Test, 0 when none does
FirstIndex(seq, Test(_)) ==
    LET hits == {i \in 1..Len(seq) : Test(seq[i])}
    IN  IF hits = {} THEN 0 ELSE CHOOSE i \in hits : \A j \in hits : i <= j

\* self.auto_proxy[user_id]: absent, or {'guild_id': ..., 'alias': ...}
NoEntry == [present |-> FALSE, guild_id |-> NoGuild, alias |-> NoAlias]

\* "if message.author.id in self.auto_proxy: if auto_data['guild_id'] ==
\* message.guild.id: self.auto_proxy[message.author.id]['alias'] = alias"
\* a branch that forgets the sticky update
StickyUpdateForgotten(ap, author, guild, alias) == ap

StickyUpdate(ap, author, guild, alias) ==
    IF ap[author].present /\ ap[author].guild_id = guild
      THEN [ap EXCEPT ![author].alias = alias]
      ELSE ap

\* the fallback without the guild comparison
StickyAliasAnyGuild(ap, author, guild) ==
    IF ap[author].present /\ ap[author].alias # NoAlias THEN ap[author].alias ELSE NoAlias

\* the auto-proxy fallback: the entry is for this guild and holds an alias
StickyAlias(ap, author, guild) ==
    IF ap[author].present /\ ap[author].guild_id = guild /\ ap[author].alias # NoAlias
      THEN ap[author].alias
      ELSE NoAlias

NoMatch(ap) ==
    [matched |-> FALSE, alias |-> NoAlias, content |-> <<>>, tier |-> "none",
     auto_proxy |-> ap]

\* the candidates with the shared personas put first
AllAliasesSharedFirst(user_aliases, shared) == shared \o user_aliases

\* "all_aliases = user_aliases + [shared_data["alias"] for ...]"
AllAliases(user_aliases, shared) == user_aliases \o shared

\* AliasManager.check_message_for_alias: the returned pair and the auto_proxy
\* map it leaves behind
check_message_for_alias(ap, als, message) ==
    IF message.guild = NoGuild \/ message.bot THEN NoMatch(ap)
    ELSE
    LET user_aliases == get_user_aliases(als, message.author, message.guild)
        shared == _get_shared_aliases_for_user(als, message.author, message.guild)
        overrides == _get_user_overrides(als, message.author, message.guild)
        all_aliases == AllAliases(user_aliases, shared)
        text == message.content
        o == FirstIndex(overrides, LAMBDA x : _matches_trigger(text, x.personal_trigger))
        a == FirstIndex(all_aliases, LAMBDA x : _matches_trigger(text, x.trigger))
        sticky == StickyAlias(ap, message.author, message.guild)
    IN  IF o # 0
          THEN [matched |-> TRUE, alias |-> overrides[o].alias,
                content |-> _extract_content(text, overrides[o].personal_trigger),
                tier |-> "override",
                auto_proxy |-> StickyUpdate(ap, message.author, message.guild,
                                            overrides[o].alias)]
        ELSE IF a # 0
          THEN [matched |-> TRUE, alias |-> all_aliases[a],
                content |-> _extract_content(text, all_aliases[a].trigger),
                tier |-> IF a <= Len(user_aliases) THEN "owned" ELSE "shared",
                auto_proxy |-> StickyUpdate(ap, message.author, message.guild,
                                            all_aliases[a])]
        ELSE IF sticky # NoAlias
          THEN [matched |-> TRUE, alias |-> sticky, content |-> text,
                tier |-> "sticky", auto_proxy |-> ap]
        ELSE NoMatch(ap)

\* one pass of the "for line in lines" loop of parse_multiline_aliases
ParseLine(ap, message, overrides, all_aliases, rawline) ==
    LET line == Strip(rawline)
        o == FirstIndex(overrides,
               LAMBDA x : /\ _matches_trigger(line, x.personal_trigger)
                          /\ Strip(_extract_content(line, x.personal_trigger)) # <<>>)
        a == FirstIndex(all_aliases,
               LAMBDA x : /\ _matches_trigger(line, x.trigger)
                          /\ Strip(_extract_content(line, x.trigger)) # <<>>)
        sticky == StickyAlias(ap, message.author, message.guild)
    IN  IF line = <<>> THEN [entries |-> <<>>, auto_proxy |-> ap]
        ELSE IF o # 0
          THEN [entries |-> << [alias |-> overrides[o].alias,
                                content |-> _extract_content(line,
                                               overrides[o].personal_trigger)] >>,
                auto_proxy |-> StickyUpdate(ap, message.author, message.guild,
                                            overrides[o].alias)]
        ELSE IF a # 0
          THEN [entries |-> << [alias |-> all_aliases[a],
                                content |-> _extract_content(line,
                                               all_aliases[a].trigger)] >>,
                auto_proxy |-> StickyUpdate(ap, message.author, message.guild,
                                            all_aliases[a])]
        ELSE IF sticky # NoAlias
          THEN [entries |-> << [alias |-> sticky, content |-> line] >>,
                auto_proxy |-> ap]
        ELSE [entries |-> <<>>, auto_proxy |-> ap]

RECURSIVE ParseLinesStaleSticky(_, _, _, _, _, _)
\* a loop in which every line sees the auto_proxy map of the call's start
ParseLinesStaleSticky(ap, message, overrides, all_aliases, lines, parsed) ==
    IF lines = <<>> THEN [entries |-> parsed, auto_proxy |-> ap]
    ELSE LET r == ParseLine(ap, message, overrides, all_aliases, Head(lines))
         IN  ParseLinesStaleSticky(ap, message, overrides, all_aliases, Tail(lines),
                                   parsed \o r.entries)

RECURSIVE ParseLines(_, _, _, _, _, _)
\* the "for line in lines" loop of parse_multiline_aliases
ParseLines(ap, message, overrides, all_aliases, lines, parsed) ==
    IF lines = <<>> THEN [entries |-> parsed, auto_proxy |-> ap]
    ELSE LET r == ParseLine(ap, message, overrides, all_aliases, Head(lines))
         IN  ParseLines(r.auto_proxy, message, overrides, all_aliases, Tail(lines),
                        parsed \o r.entries)

\* AliasManager.parse_multiline_aliases: entries = <<>> stands for None
parse_multiline_aliases(ap, als, message) ==
    IF message.guild = NoGuild \/ message.bot THEN [entries |-> <<>>, auto_proxy |-> ap]
    ELSE
    LET lines == SplitLines(message.content)
        user_aliases == get_user_aliases(als, message.author, message.guild)
        shared == _get_shared_aliases_for_user(als, message.author, message.guild)
        overrides == _get_user_overrides(als, message.author, message.guild)
    IN  IF Len(lines) <= 1 THEN [entries |-> <<>>, auto_proxy |-> ap]
        ELSE ParseLines(ap, message, overrides, user_aliases \o shared, lines, <<>>)

\* AliasManager.contains_any_alias_trigger
contains_any_alias_trigger(als, content, user_id, guild_id) ==
    LET overrides == _get_user_overrides(als, user_id, guild_id)
        all_aliases == get_user_aliases(als, user_id, guild_id)
                         \o _get_shared_aliases_for_user(als, user_id, guild_id)
    IN  \/ \E i \in 1..Len(overrides) :
              _matches_trigger(content, overrides[i].personal_trigger)
        \/ \E i \in 1..Len(all_aliases) :
              /\ all_aliases[i].trigger # <<>>
              /\ _matches_trigger(content, all_aliases[i].trigger)

\* an enable that does not reject a name it cannot resolve
EnableAutoProxyUnchecked(ap, als, user_id, guild_id, alias_name) ==
    [ok |-> TRUE,
     auto_proxy |-> [ap EXCEPT ![user_id] =
                       [present |-> TRUE, guild_id |-> guild_id,
                        alias |-> IF alias_name # <<>>
                                    THEN get_alias_by_name(als, user_id, guild_id,
                                                           alias_name)
                                    ELSE NoAlias]]]

\* AliasManager.enable_auto_proxy: the returned flag and the new map
enable_auto_proxy(ap, als, user_id, guild_id, alias_name) ==
    LET alias == IF alias_name # <<>>
                   THEN get_alias_by_name(als, user_id, guild_id, alias_name)
                   ELSE NoAlias
    IN  IF alias_name # <<>> /\ alias = NoAlias
          THEN [ok |-> FALSE, auto_proxy |-> ap]
          ELSE [ok |-> TRUE,
                auto_proxy |-> [ap EXCEPT ![user_id] =
                                  [present |-> TRUE, guild_id |-> guild_id,
                                   alias |-> alias]]]

\* AliasManager.disable_auto_proxy
disable_auto_proxy(ap, user_id) ==
    IF ap[user_id].present
      THEN [ok |-> TRUE, auto_proxy |-> [ap EXCEPT ![user_id] = NoEntry]]
      ELSE [ok |-> FALSE, auto_proxy |-> ap]

\* AliasManager.get_auto_proxy_status
get_auto_proxy_status(ap, user_id, guild_id) ==
    IF ap[user_id].present /\ ap[user_id].guild_id = guild_id
      THEN ap[user_id].alias
      ELSE NoAlias


\* ------------------------------------------------------------------ state
VARIABLES
    aliases,              \* the character_aliases table, in store order
    auto_proxy,           \* AliasManager.auto_proxy: user_id -> NoEntry or an entry
    call,                 \* the AliasManager method call being returned, or Idle
    processing_messages,  \* AliasManager.processing_messages
    webhook_cache,        \* AliasManager.webhook_cache: channel id -> webhook id, 0 = no key
    message_count,        \* character_aliases.message_count, by alias id
    tasks,                \* the coroutines: on_message / send_as_character invocations
    hooks,                \* platform: the webhooks of each channel, in listing order
    nextHook,             \* platform: the id the next created webhook gets
    deleted,              \* platform: ids of the messages that were deleted
    posts,                \* platform: the webhook posts, in order
    notices,              \* platform: the failure notices sent to channels, in order
    faults                \* number of platform / database failures so far

storeVars == <<aliases, auto_proxy>>
botVars == <<processing_messages, webhook_cache, message_count, tasks>>
platformVars == <<hooks, nextHook, deleted, posts, notices, faults>>
vars == <<aliases, auto_proxy, call, processing_messages, webhook_cache, message_count,
          tasks, hooks, nextHook, deleted, posts, notices, faults>>

\* ------------------------------------------------- channels, tasks, messages
\* "c1" is a text channel, "t1" a thread of it (channel.parent)
Channels == {"c1", "t1"}
Parent(c) == IF c = "t1" THEN "c1" ELSE "none"

\* an allow-list that knows the current name only
RecognizedNamesNewOnly == {"Quest Keeper RP"}

\* 'webhook.name in ["Quest Keeper RP", "Character Alias Bot"]'
RecognizedNames == {"Quest Keeper RP", "Character Alias Bot"}

TaskIds == 1..NumTasks

AliasIds == {InitialAliases[i].id : i \in 1..Len(InitialAliases)}

NoMsg == [id |-> "none", author |-> "none", guild |-> NoGuild, bot |-> FALSE,
          channel |-> "none", content |-> <<>>]

\* a coroutine that has not been started
NoTask ==
    [pc |-> "idle", kind |-> "none", msg |-> NoMsg, acquired |-> FALSE,
     entries |-> <<>>, idx |-> 0, alias |-> NoAlias, content |-> <<>>,
     channel |-> "none", wc |-> "none", webhook |-> 0, worklist |-> <<>>,
     creates |-> 0, cleaned |-> FALSE, first |-> "none", wrote |-> FALSE,
     failedAt |-> "none", del |-> "none", probe |-> "none", probed |-> 0,
     alone |-> FALSE,
     result |-> "none", exit |-> "none", sends |-> 0, failedSends |-> 0]

\* ---------------------------------------------- inputs of the resolver calls
Alphabet == {"k", "K", ":", "m", ".", "a", "[", "]", " "}

ShortTexts == UNION {[1..n -> Alphabet] : n \in 0..MaxTextLen}

SampleTexts ==
    { <<"k", ":", " ", "H", "i">>,
      <<"K", ":", "h", "i">>,
      <<"m", ".", " ", "h", "i">>,
      <<"m", "a", "a">>,
      <<"r", ":", "h", "i">>,
      <<"[", "H", "i", " ", "a", "]">>,
      <<"(", "h", "i", ")">>,
      <<"(", ")">>,
      <<"h", "i", " ", "a">>,
      <<"k", ":", "a", "\n", "m", ".", "h", "i">>,
      <<"k", ":", "a", "\n", "h", "i">>,
      <<"k", ":", "a", "\n", "k", ":", "h", "i">>,
      <<"m", ".", "\n", "k", ":", "a">>,
      <<"h", "i", "\n", "k", ":", "a", "\n", "\n", " ", "a", " ">>,
      <<"k", ":", "\n", "m", "a">>,
      <<"h", "i", "\n", "a">>,
      <<"a", "\n", "m", "a">> }

Texts == ShortTexts \cup SampleTexts

AliasNames ==
    { <<>>, <<"k", "a", "y">>, <<"E", "m">>, <<"M", "i", "r", "a">>, <<"G", "e", "e">> }

Message(author, guild, content) ==
    [author |-> author, guild |-> guild, bot |-> FALSE, content |-> content]

Idle ==
    [op |-> "idle", user |-> "none", guild |-> NoGuild, text |-> <<>>,
     trigger |-> <<>>, before |-> [u \in Users |-> NoEntry], matched |-> FALSE, alias |-> NoAlias,
     content |-> <<>>, tier |-> "none", entries |-> <<>>, ok |-> FALSE]

\* ------------------------------------------------------- resolver actions
InitResolver ==
    /\ aliases = InitialAliases
    /\ auto_proxy = [u \in Users |-> NoEntry]
    /\ call = Idle
    /\ processing_messages = {}
    /\ webhook_cache = [c \in Channels |-> 0]
    /\ message_count = [a \in AliasIds |-> 0]
    /\ tasks = [i \in TaskIds |-> NoTask]
    /\ hooks = [c \in Channels |-> <<>>]
    /\ nextHook = 1
    /\ deleted = {}
    /\ posts = <<>>
    /\ notices = <<>>
    /\ faults = 0

\* a call of check_message_for_alias
CheckMessage(u, g, t) ==
    /\ call.op = "idle"
    /\ LET r == check_message_for_alias(auto_proxy, aliases, Message(u, g, t))
       IN  /\ auto_proxy' = r.auto_proxy
           /\ call' = [Idle EXCEPT !.op = "check", !.user = u, !.guild = g, !.text = t,
                                   !.before = auto_proxy, !.matched = r.matched,
                                   !.alias = r.alias, !.content = r.content,
                                   !.tier = r.tier]
    /\ UNCHANGED <<aliases, botVars, platformVars>>

\* a call of parse_multiline_aliases
ParseMultiline(u, g, t) ==
    /\ call.op = "idle"
    /\ LET r == parse_multiline_aliases(auto_proxy, aliases, Message(u, g, t))
       IN  /\ auto_proxy' = r.auto_proxy
           /\ call' = [Idle EXCEPT !.op = "parse", !.user = u, !.guild = g, !.text = t,
                                   !.before = auto_proxy, !.entries = r.entries]
    /\ UNCHANGED <<aliases, botVars, platformVars>>

\* the /alias auto action:enable command
EnableAutoProxy(u, g, name) ==
    /\ call.op = "idle"
    /\ LET r == enable_auto_proxy(auto_proxy, aliases, u, g, name)
       IN  /\ auto_proxy' = r.auto_proxy
           /\ call' = [Idle EXCEPT !.op = "enable", !.user = u, !.guild = g,
                                   !.text = name, !.before = auto_proxy, !.ok = r.ok]
    /\ UNCHANGED <<aliases, botVars, platformVars>>

\* the /alias auto action:disable command, given in guild g
DisableAutoProxy(u, g) ==
    /\ call.op = "idle"
    /\ LET r == disable_auto_proxy(auto_proxy, u)
       IN  /\ auto_proxy' = r.auto_proxy
           /\ call' = [Idle EXCEPT !.op = "disable", !.user = u, !.guild = g,
                                   !.before = auto_proxy, !.ok = r.ok]
    /\ UNCHANGED <<aliases, botVars, platformVars>>

\* the resolution on_message does for a message before its first await: the
\* splitter, and check_message_for_alias when the splitter's output has
\* fewer than two entries
ResolveMessage(u, g, t) ==
    /\ call.op = "idle"
    /\ Strip(t) # <<>>
    /\ \E multi \in {parse_multiline_aliases(auto_proxy, aliases, Message(u, g, t))} :
       \E single \in {check_message_for_alias(multi.auto_proxy, aliases,
                                              Message(u, g, t))} :
          IF Len(multi.entries) > 1
            THEN /\ auto_proxy' = multi.auto_proxy
                 /\ call' = [Idle EXCEPT !.op = "resolve", !.user = u, !.guild = g,
                                         !.text = t, !.before = auto_proxy,
                                         !.entries = multi.entries]
            ELSE /\ auto_proxy' = single.auto_proxy
                 /\ call' = [Idle EXCEPT !.op = "resolve", !.user = u, !.guild = g,
                                         !.text = t, !.before = auto_proxy,
                                         !.entries = multi.entries,
                                         !.matched = single.matched,
                                         !.alias = single.alias,
                                         !.content = single.content,
                                         !.tier = single.tier]
    /\ UNCHANGED <<aliases, botVars, platformVars>>

\* the call returns to its caller
Return ==
    /\ call.op # "idle"
    /\ call' = Idle
    /\ UNCHANGED <<aliases, auto_proxy, botVars, platformVars>>

NextResolver ==
    \/ call.op = "idle" /\ \E u \in Users, g \in Guilds, t \in Texts :
                               CheckMessage(u, g, t)
    \/ call.op = "idle" /\ \E u \in Users, g \in Guilds, t \in Texts :
                               ParseMultiline(u, g, t)
    \/ \E u \in Users, g \in Guilds, n \in AliasNames : EnableAutoProxy(u, g, n)
    \/ \E u \in Users, g \in Guilds : DisableAutoProxy(u, g)
    \/ call.op = "idle" /\ \E u \in Users, g \in Guilds, t \in Texts :
                               ResolveMessage(u, g, t)
    \/ Return

SpecResolver == InitResolver /\ [][NextResolver]_vars


\* ------------------------------------------------- claims on the resolver
\* The sticky state of section 4.3 that an auto_proxy map holds for
\* (operator, guild): Disabled, EnabledUnset, or the persona of EnabledWith.
StickyState(ap, u, g) ==
    IF ~ap[u].present \/ ap[u].guild_id # g THEN "Disabled"
    ELSE IF ap[u].alias = NoAlias THEN "EnabledUnset"
    ELSE ap[u].alias.id

CallOverrides == _get_user_overrides(aliases, call.user, call.guild)

\* the override that the store order puts first among those matching the text
FirstMatchingOverride(text) ==
    FirstIndex(CallOverrides, LAMBDA x : _matches_trigger(text, x.personal_trigger))

\* what the claim expects of a text: the first matching override's persona, with
\* the content extracted by that override's trigger
OverrideWins(text, alias, content) ==
    LET o == FirstMatchingOverride(text)
    IN  o # 0 => /\ alias = CallOverrides[o].alias
                 /\ content = _extract_content(text, CallOverrides[o].personal_trigger)

\* the per-line resolutions of the parse_multiline_aliases call being returned
CallLineResult(n) ==
    LET msg == Message(call.user, call.guild, call.text)
        lines == SplitLines(call.text)
        all_aliases == get_user_aliases(aliases, call.user, call.guild)
                         \o _get_shared_aliases_for_user(aliases, call.user, call.guild)
        apn == ParseLines(call.before, msg, CallOverrides, all_aliases,
                          SubSeq(lines, 1, n - 1), <<>>).auto_proxy
    IN  ParseLine(apn, msg, CallOverrides, all_aliases, lines[n])

\* C3: a text that matches an override's personal trigger resolves to the
\* override's persona with the content extracted by the override trigger, in
\* check_message_for_alias and for every line of parse_multiline_aliases.
C3_OverridePriority ==
    /\ call.op = "check" /\ FirstMatchingOverride(call.text) # 0
         => call.matched /\ OverrideWins(call.text, call.alias, call.content)
    /\ call.op = "parse" /\ Len(SplitLines(call.text)) > 1
         => \A n \in 1..Len(SplitLines(call.text)) :
              LET line == Strip(SplitLines(call.text)[n])
                  r == CallLineResult(n)
              IN  FirstMatchingOverride(line) # 0
                    => /\ Len(r.entries) = 1
                       /\ OverrideWins(line, r.entries[1].alias, r.entries[1].content)

\* the check_message_for_alias half of C3 alone
C3_OverridePrioritySingle ==
    call.op = "check" /\ FirstMatchingOverride(call.text) # 0
      => call.matched /\ OverrideWins(call.text, call.alias, call.content)

\* C4: after check_message_for_alias matched persona Q through an override,
\* owned or shared trigger, the operator's sticky state in that guild is
\* EnabledWith(Q) if it was enabled (set or unset) before, and is still
\* Disabled if it was Disabled before.
C4_StickyFollowsTrigger ==
    call.op = "check" /\ call.tier \in {"override", "owned", "shared"}
      => LET was == StickyState(call.before, call.user, call.guild)
             now == StickyState(auto_proxy, call.user, call.guild)
         IN  /\ call.matched
             /\ contains_any_alias_trigger(aliases, call.text, call.user, call.guild)
             /\ IF was = "Disabled" THEN now = "Disabled" ELSE now = call.alias.id

C4_Witness ==
    /\ call.op = "check" /\ call.tier = "override"
    /\ StickyState(call.before, call.user, call.guild) = "p1"
    /\ StickyState(auto_proxy, call.user, call.guild) = "p3"

\* C5: when no override, owned or shared trigger matches the text,
\* check_message_for_alias returns the sticky persona p with the whole text
\* as content and leaves the sticky state alone if the state is
\* EnabledWith(p), and returns no match if it is Disabled or EnabledUnset.
C5_StickyFallback ==
    (/\ call.op = "check"
     /\ ~contains_any_alias_trigger(aliases, call.text, call.user, call.guild))
      => LET was == StickyState(call.before, call.user, call.guild)
         IN  /\ auto_proxy = call.before
             /\ IF was \in {"Disabled", "EnabledUnset"}
                   THEN ~call.matched
                   ELSE /\ call.matched
                        /\ call.alias.id = was
                        /\ call.alias = call.before[call.user].alias
                        /\ call.content = call.text

C5_Witness ==
    /\ call.op = "check" /\ call.tier = "sticky"
    /\ call.text = <<"h", "i", " ", "a">>
    /\ call.alias = Mira /\ call.content = call.text

\* C6: an enable, a disable or a trigger match in guild B leaves the same
\* operator's sticky state in every other guild A as it was.
C6_StickyIsolatedPerGuild ==
    call.op \in {"enable", "disable", "check", "parse"}
      => \A g \in Guilds \ {call.guild} :
            /\ StickyState(auto_proxy, call.user, g) = StickyState(call.before, call.user, g)
            /\ get_auto_proxy_status(auto_proxy, call.user, g)
                  = get_auto_proxy_status(call.before, call.user, g)

\* the trigger-match half of C6 alone
C6_TriggerMatchIsolated ==
    call.op \in {"check", "parse"}
      => \A g \in Guilds \ {call.guild} :
            StickyState(auto_proxy, call.user, g) = StickyState(call.before, call.user, g)


\* ------------------------------------------------------------- dispatcher
Msg(id, author, channel, content) ==
    [id |-> id, author |-> author, guild |-> "g1", bot |-> FALSE,
     channel |-> channel, content |-> content]

\* the messages that arrive
Catalog ==
    { Msg("m1", "u1", "c1", <<"k", ":", " ", "H", "i">>),
      Msg("m2", "u1", "c1", <<"k", ":", "a", "\n", "m", ".", "h", "i">>),
      Msg("m3", "u1", "c1", <<"k", ":", "a", "\n", "k", ":", "h", "i">>),
      Msg("m4", "u1", "c1", <<"h", "i", " ", "a">>),
      [Msg("m5", "u2", "c1", <<"r", ":", "h", "i">>) EXCEPT !.bot = TRUE],
      Msg("m6", "u1", "c1", <<"k", ":", "a", "\n", "(", "a", ")">>) }

\* send_as_character that takes the webhook of the channel it was given
EnterSendOwnChannel(t, alias, content, cache) ==
    [t EXCEPT !.pc = IF cache[t.channel] # 0 THEN "fetch" ELSE "list",
              !.wc = t.channel, !.webhook = cache[t.channel], !.alias = alias,
              !.content = content, !.worklist = <<>>, !.creates = 0,
              !.cleaned = FALSE, !.first = "none", !.wrote = FALSE,
              !.failedAt = "none", !.probe = "none", !.probed = cache[t.channel]]

\* send_as_character up to its first await: the webhook channel is the parent
\* of a thread, and get_or_create_webhook probes a cached webhook or lists
EnterSend(t, alias, content, cache) ==
    LET wc == IF Parent(t.channel) # "none" THEN Parent(t.channel) ELSE t.channel
    IN  [t EXCEPT !.pc = IF cache[wc] # 0 THEN "fetch" ELSE "list",
                  !.wc = wc, !.webhook = cache[wc], !.alias = alias,
                  !.content = content, !.worklist = <<>>, !.creates = 0,
                  !.cleaned = FALSE, !.first = "none", !.wrote = FALSE,
                  !.failedAt = "none", !.probe = "none", !.probed = cache[wc]]

\* the return of on_message (through the outer finally) or of a direct call
Finish(t, exit) == [t EXCEPT !.pc = "done", !.exit = exit]

\* a handler without the finally clause
ReleaseNever(proc, t) == proc

\* a release on the delivery paths only
ReleaseOnDelivery(proc, t) ==
    IF t.pc = "done" /\ t.exit \in {"delivered", "multi_done"}
      THEN proc \ {t.msg.id} ELSE proc

\* "finally: alias_manager.processing_messages.discard(message_id)"
Release(proc, t) ==
    IF t.pc = "done" /\ t.kind \in {"single", "multi"} THEN proc \ {t.msg.id} ELSE proc

\* the set of names of "unique_characters"
UniqueCharacters(entries) == {entries[n].alias.name : n \in 1..Len(entries)}

\* a handler whose sticky update is not applied when it reaches its first await
ArrivalStickyPending(m, ap, als, proc, dbfail, multi, single) ==
    LET t1 == [NoTask EXCEPT !.kind = "single", !.msg = m, !.channel = m.channel,
                             !.acquired = TRUE]
    IN  IF m.bot \/ m.guild = NoGuild \/ Strip(m.content) = <<>>
             \/ m.id \in proc \/ dbfail # "none"
          THEN [task |-> Finish([t1 EXCEPT !.acquired = FALSE], "skipped"),
                auto_proxy |-> ap, processing |-> proc]
        ELSE IF Len(multi.entries) > 1
          THEN [task |-> [t1 EXCEPT !.pc = "delete", !.kind = "multi",
                                    !.entries = multi.entries],
                auto_proxy |-> ap, processing |-> proc \cup {m.id}]
        ELSE IF ~single.matched
          THEN [task |-> Finish(t1, "no_match"), auto_proxy |-> ap,
                processing |-> proc \cup {m.id}]
        ELSE [task |-> [t1 EXCEPT !.pc = "delete", !.alias = single.alias,
                                  !.content = single.content],
              auto_proxy |-> ap, processing |-> proc \cup {m.id}]

\* on_message from its start to its first await (or to its return), given
\* the results multi of parse_multiline_aliases and single of
\* check_message_for_alias; dbfail names the AliasManager call whose database
\* session fails, if one does
Arrival(m, ap, als, proc, dbfail, multi, single) ==
    LET t0 == [NoTask EXCEPT !.kind = "single", !.msg = m, !.channel = m.channel]
        t1 == [t0 EXCEPT !.acquired = TRUE]
    IN  IF m.bot \/ m.guild = NoGuild \/ Strip(m.content) = <<>>
          THEN [task |-> [Finish(t0, "skipped") EXCEPT !.kind = "none"],
                auto_proxy |-> ap, processing |-> proc]
        ELSE IF m.id \in proc
          THEN [task |-> Finish(t0, "duplicate"), auto_proxy |-> ap,
                processing |-> proc]
        ELSE IF dbfail = "parse"
          THEN [task |-> Finish(t1, "exception"), auto_proxy |-> ap,
                processing |-> proc \cup {m.id}]
        ELSE IF Len(multi.entries) > 1
          THEN IF Cardinality(UniqueCharacters(multi.entries)) > 1
                 THEN [task |-> [t1 EXCEPT !.pc = "delete", !.kind = "multi",
                                           !.entries = multi.entries],
                       auto_proxy |-> multi.auto_proxy,
                       processing |-> proc \cup {m.id}]
                 ELSE [task |-> Finish([t1 EXCEPT !.entries = multi.entries],
                                       "multi_single_persona"),
                       auto_proxy |-> multi.auto_proxy,
                       processing |-> proc \cup {m.id}]
        ELSE IF dbfail = "check"
          THEN [task |-> Finish(t1, "exception"), auto_proxy |-> multi.auto_proxy,
                processing |-> proc \cup {m.id}]
        ELSE IF ~single.matched
          THEN [task |-> Finish(t1, IF contains_any_alias_trigger(als, m.content,
                                                                 m.author, m.guild)
                                      THEN "near_miss" ELSE "no_match"),
                auto_proxy |-> single.auto_proxy,
                processing |-> proc \cup {m.id}]
        ELSE [task |-> [t1 EXCEPT !.pc = "delete", !.alias = single.alias,
                                  !.content = single.content],
              auto_proxy |-> single.auto_proxy,
              processing |-> proc \cup {m.id}]

\* the event loop starts on_message for message m as coroutine i
Arrive(i, m, dbfail) ==
    /\ tasks[i].pc = "idle"
    /\ i > 1 => tasks[i - 1].pc # "idle"
    /\ Cardinality({tasks[j].msg.id : j \in TaskIds} \cup {m.id, "none"}) <= MaxMessages + 1
    /\ dbfail # "none" => faults < MaxFaults
    /\ dbfail = "parse" => Len(SplitLines(m.content)) > 1
    /\ \E multi \in {parse_multiline_aliases(auto_proxy, aliases, m)} :
       \E single \in {check_message_for_alias(multi.auto_proxy, aliases, m)} :
       \E r \in {Arrival(m, auto_proxy, aliases, processing_messages, dbfail,
                         multi, single)} :
           /\ dbfail # "none" => r.task.exit = "exception"
           /\ tasks' = [tasks EXCEPT ![i] = r.task]
           /\ auto_proxy' = r.auto_proxy
           /\ processing_messages' = Release(r.processing, r.task)
    /\ faults' = IF dbfail # "none" THEN faults + 1 ELSE faults
    /\ UNCHANGED <<aliases, call, webhook_cache, message_count,
                   hooks, nextHook, deleted, posts, notices>>

\* what on_message does with the outcome of send_as_character, and what a
\* direct caller of send_as_character gets
AfterSend(t, res, cache) ==
    LET counted == [t EXCEPT !.sends = @ + 1, !.result = res,
                             !.failedSends = IF res = "ok" THEN @ ELSE @ + 1]
    IN  IF t.kind = "direct" THEN Finish(counted, res)
        ELSE IF t.kind = "multi"
          THEN IF t.idx < Len(t.entries)
                 THEN EnterSend([counted EXCEPT !.idx = @ + 1],
                                t.entries[t.idx + 1].alias,
                                t.entries[t.idx + 1].content, cache)
                 ELSE Finish(counted, "multi_done")
        ELSE IF res = "ok" THEN Finish(counted, "delivered")
        ELSE IF res \in {"Forbidden", "NotFound"} THEN Finish(counted, "send_failed_logged")
        ELSE [counted EXCEPT !.pc = "notify"]

\* "await message.delete()" completes with outcome o
DeleteDone(i, o) ==
    LET t == tasks[i]
        gone == t.msg.id \in deleted
        fault == o # "ok" /\ ~gone
        td == [t EXCEPT !.del = o]
        next ==
          IF o = "ok"
            THEN IF t.kind = "multi"
                   THEN EnterSend([td EXCEPT !.idx = 1], t.entries[1].alias,
                                  t.entries[1].content, webhook_cache)
                   ELSE EnterSend(td, t.alias, t.content, webhook_cache)
          ELSE IF t.kind = "multi" THEN Finish(td, "multi_delete_failed")
          ELSE IF o \in {"Forbidden", "NotFound"} THEN Finish(td, "delete_failed")
          ELSE [td EXCEPT !.pc = "notify"]
    IN  /\ t.pc = "delete"
        /\ o \in {"ok", "Forbidden", "NotFound", "Other"}
        /\ gone => o = "NotFound"
        /\ fault => faults < MaxFaults
        /\ faults' = IF fault THEN faults + 1 ELSE faults
        /\ deleted' = IF o \in {"ok", "NotFound"} THEN deleted \cup {t.msg.id} ELSE deleted
        /\ tasks' = [tasks EXCEPT ![i] = next]
        /\ processing_messages' = Release(processing_messages, next)
        /\ UNCHANGED <<aliases, auto_proxy, call, webhook_cache, message_count,
                       hooks, nextHook, posts, notices>>

\* "await message.channel.send(..., delete_after=10)" completes: the notice
\* is posted, or the attempt fails and the failure is swallowed
NotifyDone(i, o) ==
    LET t == tasks[i]
        next == Finish(t, IF o = "ok" THEN "notified" ELSE "notice_failed")
    IN  /\ t.pc = "notify"
        /\ o \in {"ok", "Other"}
        /\ o # "ok" => faults < MaxFaults
        /\ faults' = IF o # "ok" THEN faults + 1 ELSE faults
        /\ notices' = IF o = "ok"
                        THEN Append(notices, [msg |-> t.msg.id, channel |-> t.channel,
                                              alias |-> t.alias.id, delete_after |-> NoticeDeleteAfter])
                        ELSE notices
        /\ tasks' = [tasks EXCEPT ![i] = next]
        /\ processing_messages' = Release(processing_messages, next)
        /\ UNCHANGED <<aliases, auto_proxy, call, webhook_cache, message_count,
                       hooks, nextHook, deleted, posts>>


\* ----------------------------------------------------------- webhook pool
HookIds(hs) == {hs[n].id : n \in 1..Len(hs)}

Recognized(hs) == SelectSeq(hs, LAMBDA h : h.name \in RecognizedNames)

Unrecognized(hs) == SelectSeq(hs, LAMBDA h : h.name \notin RecognizedNames)

RemoveHook(hs, id) == SelectSeq(hs, LAMBDA h : h.id # id)

\* the webhooks _cleanup_old_webhooks goes on to delete, given the listing it
\* fetched: every recognized one but the first, then, if the listing has
\* HardCap entries or more, the first MaxOtherDeletes unrecognized ones
CleanupWorklistKeepNone(listing) ==
    LET qk == Recognized(listing)
        other == Unrecognized(listing)
    IN  qk \o (IF Len(listing) >= HardCap
                 THEN SubSeq(other, 1, IF Len(other) < MaxOtherDeletes
                                         THEN Len(other) ELSE MaxOtherDeletes)
                 ELSE <<>>)

CleanupWorklist(listing) ==
    LET qk == Recognized(listing)
        other == Unrecognized(listing)
    IN  (IF Len(qk) > 1 THEN Tail(qk) ELSE <<>>)
        \o (IF Len(listing) >= HardCap
              THEN SubSeq(other, 1, IF Len(other) < MaxOtherDeletes
                                      THEN Len(other) ELSE MaxOtherDeletes)
              ELSE <<>>)

\* "await webhook.fetch()" completes: the cached webhook exists, was deleted
\* (NotFound), or the probe fails otherwise and the failure propagates
FetchDone(i, o) ==
    LET t0 == tasks[i]
        t == [t0 EXCEPT !.probe = o]
        exists == t.webhook \in HookIds(hooks[t.wc])
        fault == o \in {"Forbidden", "Other"}
        next == IF o = "ok" THEN [t EXCEPT !.pc = "send"]
                ELSE IF o = "NotFound"
                  THEN IF webhook_cache[t.wc] = 0
                         THEN AfterSend([t EXCEPT !.failedAt = "fetch"], "Other",
                                        webhook_cache)
                         ELSE [t EXCEPT !.pc = "list", !.webhook = 0]
                ELSE AfterSend([t EXCEPT !.failedAt = "fetch"], o, webhook_cache)
    IN  /\ t.pc = "fetch"
        /\ o \in {"ok", "NotFound", "Forbidden", "Other"}
        /\ o = "ok" => exists
        /\ o = "NotFound" => ~exists
        /\ fault => faults < MaxFaults
        /\ faults' = IF fault THEN faults + 1 ELSE faults
        /\ webhook_cache' = IF o = "NotFound"
                              THEN [webhook_cache EXCEPT ![t.wc] = 0]
                              ELSE webhook_cache
        /\ tasks' = [tasks EXCEPT ![i] = next]
        /\ processing_messages' = Release(processing_messages, next)
        /\ UNCHANGED <<aliases, auto_proxy, call, message_count,
                       hooks, nextHook, deleted, posts, notices>>

\* "await channel.webhooks()" of get_or_create_webhook completes
ListDone(i, o) ==
    LET t == tasks[i]
        qk == Recognized(hooks[t.wc])
        found == o = "ok" /\ qk # <<>>
    IN  /\ t.pc = "list"
        /\ o \in {"ok", "Other"}
        /\ o # "ok" => faults < MaxFaults
        /\ faults' = IF o # "ok" THEN faults + 1 ELSE faults
        /\ webhook_cache' = IF found
                              THEN [webhook_cache EXCEPT ![t.wc] = qk[1].id]
                              ELSE webhook_cache
        /\ tasks' = [tasks EXCEPT ![i] =
                       IF found
                         THEN [t EXCEPT !.pc = "send", !.webhook = qk[1].id, !.wrote = TRUE]
                         ELSE [t EXCEPT !.pc = "create"]]
        /\ UNCHANGED <<aliases, auto_proxy, call, processing_messages, message_count,
                       hooks, nextHook, deleted, posts, notices>>

\* a channel.create_webhook call completes: the first attempt (pc "create")
\* or the one after the cleanup (pc "retry")
CreatedHook == [id |-> nextHook, name |-> "Quest Keeper RP"]

\* the failure handling of the first attempt without the test of e.code
AfterCreateFailureAlwaysCleanup(t, o) ==
    [t EXCEPT !.pc = "cl_list", !.creates = @ + 1, !.first = o]

\* "except discord.HTTPException as e: if e.code == 30007: ... else: raise"
AfterCreateFailure(t, o) ==
    IF o = "Quota"
      THEN [t EXCEPT !.pc = "cl_list", !.creates = @ + 1, !.first = o]
      ELSE AfterSend([t EXCEPT !.creates = @ + 1, !.first = o, !.failedAt = "create"],
                     "Other", webhook_cache)

CreateDone(i, o) ==
    LET t == tasks[i]
        full == Len(hooks[t.wc]) >= HardCap
        fault == o # "ok" /\ ~full
        next == IF o = "ok"
                  THEN [t EXCEPT !.pc = "send", !.webhook = nextHook, !.wrote = TRUE,
                                 !.creates = @ + 1]
                ELSE IF t.pc = "create" THEN AfterCreateFailure(t, o)
                ELSE AfterSend([t EXCEPT !.creates = @ + 1, !.failedAt = "retry"],
                               "Other", webhook_cache)
    IN  /\ t.pc \in {"create", "retry"}
        /\ o \in {"ok", "Quota", "Forbidden", "Other"}
        /\ full => o = "Quota"
        /\ fault => faults < MaxFaults
        /\ faults' = IF fault THEN faults + 1 ELSE faults
        /\ hooks' = IF o = "ok"
                      THEN [hooks EXCEPT ![t.wc] = Append(@, CreatedHook)]
                      ELSE hooks
        /\ nextHook' = IF o = "ok" THEN nextHook + 1 ELSE nextHook
        /\ webhook_cache' = IF o = "ok"
                              THEN [webhook_cache EXCEPT ![t.wc] = nextHook]
                              ELSE webhook_cache
        /\ tasks' = [tasks EXCEPT ![i] = next]
        /\ processing_messages' = Release(processing_messages, next)
        /\ UNCHANGED <<aliases, auto_proxy, call, message_count, deleted, posts, notices>>

\* "await channel.webhooks()" of _cleanup_old_webhooks completes; a failure
\* is re-raised and ends get_or_create_webhook
CleanupListDone(i, o) ==
    LET t == tasks[i]
        work == CleanupWorklist(hooks[t.wc])
        ids == [n \in 1..Len(work) |-> work[n].id]
        next == IF o # "ok"
                  THEN AfterSend([t EXCEPT !.failedAt = "cleanup"], "Other", webhook_cache)
                ELSE IF ids = <<>> THEN [t EXCEPT !.pc = "retry", !.cleaned = TRUE]
                ELSE [t EXCEPT !.pc = "cl_del", !.worklist = ids]
    IN  /\ t.pc = "cl_list"
        /\ o \in {"ok", "Other"}
        /\ o # "ok" => faults < MaxFaults
        /\ faults' = IF o # "ok" THEN faults + 1 ELSE faults
        /\ tasks' = [tasks EXCEPT ![i] = next]
        /\ processing_messages' = Release(processing_messages, next)
        /\ UNCHANGED <<aliases, auto_proxy, call, webhook_cache, message_count,
                       hooks, nextHook, deleted, posts, notices>>

\* one "await webhook.delete(...)" of the cleanup completes; its failure is
\* swallowed
CleanupDeleteDone(i, o) ==
    LET t == tasks[i]
        id == Head(t.worklist)
        exists == id \in HookIds(hooks[t.wc])
        rest == Tail(t.worklist)
    IN  /\ t.pc = "cl_del"
        /\ o \in {"ok", "NotFound", "Other"}
        /\ o = "ok" => exists
        /\ o = "NotFound" => ~exists
        /\ o = "Other" => faults < MaxFaults
        /\ faults' = IF o = "Other" THEN faults + 1 ELSE faults
        /\ hooks' = IF o = "ok" THEN [hooks EXCEPT ![t.wc] = RemoveHook(@, id)] ELSE hooks
        /\ tasks' = [tasks EXCEPT ![i] =
                       IF rest = <<>>
                         THEN [t EXCEPT !.pc = "retry", !.worklist = rest, !.cleaned = TRUE]
                         ELSE [t EXCEPT !.worklist = rest]]
        /\ UNCHANGED <<aliases, auto_proxy, call, processing_messages, webhook_cache,
                       message_count, nextHook, deleted, posts, notices>>

\* AliasManager.increment_message_count: the row is looked up by name
increment_message_count(mc, als, alias) ==
    LET row == get_alias_by_name(als, alias.user_id, alias.guild_id, alias.name)
    IN  IF row = NoAlias THEN mc ELSE [mc EXCEPT ![row.id] = @ + 1]

\* "await webhook.send(...)" completes with outcome o; after a successful send
\* increment_message_count runs with store outcome db: "ok", "rollback" (an
\* exception inside its try, logged and swallowed) or "no_session"
\* (db_manager.get_session() raises before the try, and send_as_character
\* re-raises it)
SendDone(i, o, db) ==
    LET t == tasks[i]
        exists == t.webhook \in HookIds(hooks[t.wc])
        fault == o \in {"Forbidden", "Other"} \/ db # "ok"
        next == IF o = "ok" /\ db = "no_session"
                  THEN AfterSend([t EXCEPT !.failedAt = "count"], "Other", webhook_cache)
                  ELSE AfterSend([t EXCEPT !.failedAt = IF o = "ok" THEN "none"
                                                         ELSE "send"],
                                 o, webhook_cache)
    IN  /\ t.pc = "send"
        /\ o \in {"ok", "NotFound", "Forbidden", "Other"}
        /\ db \in {"ok", "rollback", "no_session"}
        /\ o # "ok" => db = "ok"
        /\ o = "ok" => exists
        /\ o = "NotFound" => ~exists
        /\ fault => faults < MaxFaults
        /\ faults' = IF fault THEN faults + 1 ELSE faults
        /\ posts' = IF o = "ok"
                      THEN Append(posts,
                             [msg |-> t.msg.id, alias |-> t.alias.id,
                              username |-> t.alias.name, content |-> t.content,
                              channel |-> t.wc, webhook |-> t.webhook,
                              thread |-> IF Parent(t.channel) # "none"
                                           THEN t.channel ELSE "none"])
                      ELSE posts
        /\ message_count' = IF o = "ok" /\ db = "ok"
                              THEN increment_message_count(message_count, aliases, t.alias)
                              ELSE message_count
        /\ tasks' = [tasks EXCEPT ![i] = next]
        /\ processing_messages' = Release(processing_messages, next)
        /\ UNCHANGED <<aliases, auto_proxy, call, webhook_cache,
                       hooks, nextHook, deleted, notices>>

PoolStep(i) ==
    \/ \E o \in {"ok", "NotFound", "Forbidden", "Other"} : FetchDone(i, o)
    \/ \E o \in {"ok", "Other"} : ListDone(i, o)
    \/ \E o \in {"ok", "Quota", "Forbidden", "Other"} : CreateDone(i, o)
    \/ \E o \in {"ok", "Other"} : CleanupListDone(i, o)
    \/ \E o \in {"ok", "NotFound", "Other"} : CleanupDeleteDone(i, o)
    \/ \E o \in {"ok", "NotFound", "Forbidden", "Other"},
          db \in {"ok", "rollback", "no_session"} : SendDone(i, o, db)

\* ------------------------------------------- the webhook pool on its own
\* the webhooks a channel may hold when the bot starts
FullOfOthers == [n \in 1..HardCap |-> [id |-> n, name |-> "Other"]]

\* --------------------------------------------------- the bot on its guild
Init ==
    /\ aliases = InitialAliases
    /\ auto_proxy = enable_auto_proxy([u \in Users |-> NoEntry], aliases,
                                      "u1", "g1", <<>>).auto_proxy
    /\ call = Idle
    /\ processing_messages = {}
    /\ webhook_cache = [c \in Channels |-> 0]
    /\ message_count = [a \in AliasIds |-> 0]
    /\ tasks = [i \in TaskIds |-> NoTask]
    /\ \E hs \in {<<>>, FullOfOthers} :
          hooks = [c \in Channels |-> IF c = "c1" THEN hs ELSE <<>>]
    /\ nextHook = HardCap + 2
    /\ deleted = {}
    /\ posts = <<>>
    /\ notices = <<>>
    /\ faults = 0

Next ==
    \/ \E i \in TaskIds, m \in Catalog, f \in {"none", "parse", "check"} : Arrive(i, m, f)
    \/ \E i \in TaskIds, o \in {"ok", "Forbidden", "NotFound", "Other"} : DeleteDone(i, o)
    \/ \E i \in TaskIds : PoolStep(i)
    \/ \E i \in TaskIds, o \in {"ok", "Other"} : NotifyDone(i, o)

Spec == Init /\ [][Next]_vars



HookScenarios ==
    { <<>>,
      << [id |-> 1, name |-> "Character Alias Bot"] >>,
      << [id |-> 1, name |-> "Other"], [id |-> 2, name |-> "Quest Keeper RP"],
         [id |-> 3, name |-> "Character Alias Bot"] >>,
      FullOfOthers,
      [FullOfOthers EXCEPT ![2].name = "Quest Keeper RP",
                           ![3].name = "Character Alias Bot"] }

InitPool ==
    /\ aliases = InitialAliases
    /\ auto_proxy = [u \in Users |-> NoEntry]
    /\ call = Idle
    /\ processing_messages = {}
    /\ \E hs \in HookScenarios :
          /\ hooks = [c \in Channels |-> IF c = "c1" THEN hs ELSE <<>>]
          /\ \E w \in {0, HardCap + 1} \cup {hs[n].id : n \in 1..Len(hs)} :
                /\ w > 3 => w = HardCap + 1
                /\ webhook_cache = [c \in Channels |-> IF c = "c1" THEN w ELSE 0]
    /\ message_count = [a \in AliasIds |-> 0]
    /\ tasks = [i \in TaskIds |-> NoTask]
    /\ nextHook = HardCap + 2
    /\ deleted = {}
    /\ posts = <<>>
    /\ notices = <<>>
    /\ faults = 0

\* a caller other than on_message awaits send_as_character(channel, alias, ...);
\* alone records that no other call is in flight when this one starts
CallSend(i, c) ==
    /\ i <= MaxCalls
    /\ tasks[i].pc = "idle"
    /\ i > 1 => tasks[i - 1].pc # "idle"
    /\ tasks' = [tasks EXCEPT ![i] =
                   EnterSend([NoTask EXCEPT !.kind = "direct", !.channel = c,
                                            !.alone = \A j \in TaskIds : tasks[j].pc
                                                         \in {"idle", "done"}],
                             Kay, <<"h", "i">>, webhook_cache)]
    /\ UNCHANGED <<aliases, auto_proxy, call, processing_messages, webhook_cache,
                   message_count, platformVars>>

\* somebody deletes, in the platform's settings, the webhook the cache names
AdminDeletesWebhook(c) ==
    /\ webhook_cache[c] \in HookIds(hooks[c])
    /\ faults < MaxFaults
    /\ faults' = faults + 1
    /\ hooks' = [hooks EXCEPT ![c] = RemoveHook(@, webhook_cache[c])]
    /\ UNCHANGED <<aliases, auto_proxy, call, botVars, nextHook, deleted, posts, notices>>

NextPool ==
    \/ \E i \in TaskIds, c \in Channels : CallSend(i, c)
    \/ \E i \in TaskIds : PoolStep(i)
    \/ \E c \in Channels : AdminDeletesWebhook(c)

SpecPool == InitPool /\ [][NextPool]_vars


\* ----------------------------------------------- claims on the dispatcher
Running(i) == tasks[i].pc \notin {"idle", "done"}

\* C1: when an on_message invocation that added its message id to
\* processing_messages returns, by whatever exit path, the id is not in
\* processing_messages.
C1_GuardNeverLeaks ==
    [][\A i \in TaskIds :
          (tasks[i].pc # "done" /\ tasks'[i].pc = "done" /\ tasks'[i].acquired)
            => tasks'[i].msg.id \notin processing_messages']_vars

\* every id in the guard was added by an invocation that has not returned
C1_GuardHoldsOnlyInFlight ==
    \A id \in processing_messages :
       \E i \in TaskIds : Running(i) /\ tasks[i].acquired /\ tasks[i].msg.id = id

C1_Witness ==
    /\ processing_messages = {}
    /\ \E i, j \in TaskIds :
          /\ tasks[i].acquired /\ tasks[i].exit = "multi_done"
          /\ tasks[j].acquired /\ tasks[j].exit = "notified"

\* C2: while one invocation for message id m is in flight past the guard, no
\* other invocation for the same id is past the guard.
C2_GuardPreventsReentry ==
    \A i, j \in TaskIds :
       (/\ i # j
        /\ tasks[i].msg.id = tasks[j].msg.id
        /\ Running(i) /\ tasks[i].acquired)
         => ~(Running(j) /\ tasks[j].acquired)

\* the same with at most two invocations per message id
C2_TwoInvocations ==
    (\A id \in {tasks[i].msg.id : i \in TaskIds} \ {"none"} :
        Cardinality({i \in TaskIds : tasks[i].msg.id = id}) <= 2)
      => C2_GuardPreventsReentry

\* the number of posts made for the entry (alias, content) of message id
PostsOf(id, alias, content) ==
    Cardinality({n \in 1..Len(posts) : /\ posts[n].msg = id
                                        /\ posts[n].alias = alias
                                        /\ posts[n].content = content})

\* C7: when the delete of the original fails with Forbidden or NotFound, the
\* resolved persona and content are still handed to send_as_character: once
\* for a single-line message, once per entry for a multi-line one.
C7_DeleteFailureKeepsDelivery ==
    \A i \in TaskIds :
       (tasks[i].pc = "done" /\ tasks[i].del \in {"Forbidden", "NotFound"})
         => tasks[i].sends = IF tasks[i].kind = "multi" THEN Len(tasks[i].entries) ELSE 1

\* C8: a multi-line message whose entries (two or more) all name one persona
\* is handled as a single-line message: when check_message_for_alias on the
\* whole message matches, the original is deleted and the match delivered.
C8_SinglePersonaFallback ==
    \A i \in TaskIds :
       (/\ tasks[i].pc = "done"
        /\ Len(tasks[i].entries) > 1
        /\ Cardinality(UniqueCharacters(tasks[i].entries)) = 1
        /\ contains_any_alias_trigger(aliases, tasks[i].msg.content,
                                      tasks[i].msg.author, tasks[i].msg.guild))
         => tasks[i].del # "none" /\ tasks[i].sends > 0

\* C10: when send_as_character fails for a resolved message, the operator's
\* channel gets a self-expiring failure notice (unless posting the notice
\* itself fails), and no entry of a message is posted twice.
C10_FailureReportedOnce ==
    /\ \A i \in TaskIds :
          (/\ tasks[i].pc = "done" /\ tasks[i].kind \in {"single", "multi"}
           /\ tasks[i].failedSends > 0 /\ tasks[i].exit # "notice_failed")
            => \E n \in 1..Len(notices) :
                  /\ notices[n].msg = tasks[i].msg.id
                  /\ notices[n].channel = tasks[i].msg.channel
                  /\ notices[n].delete_after > 0
    /\ \A n \in 1..Len(posts) :
          PostsOf(posts[n].msg, posts[n].alias, posts[n].content) = 1

\* the second half of C10 alone
C10_NeverDeliveredTwice ==
    \A n \in 1..Len(posts) : PostsOf(posts[n].msg, posts[n].alias, posts[n].content) = 1

\* ---------------------------------------------------- claims on the pool
\* C9: one get_or_create_webhook call attempts creation at most twice; a
\* second attempt happens only after a first one that failed with the quota
\* error and after _cleanup_old_webhooks ran; when the cleanup or the second
\* attempt fails the call raises and has cached nothing; a first attempt
\* that fails otherwise ends the call without a retry.
C9_QuotaRetryOnce ==
    \A i \in TaskIds :
       LET t == tasks[i]
       IN  /\ t.creates <= 2
           /\ (t.creates = 2 \/ t.pc = "retry") => t.first = "Quota" /\ t.cleaned
           /\ t.failedAt \in {"cleanup", "retry"}
                => /\ t.pc = "done" /\ t.result = "Other" /\ ~t.wrote
                   /\ t.creates = (IF t.failedAt = "retry" THEN 2 ELSE 1)
                   /\ \/ webhook_cache[t.wc] = 0
                      \/ \E j \in TaskIds \ {i} : tasks[j].wc = t.wc /\ tasks[j].wrote
           /\ t.first \in {"Forbidden", "Other"}
                => /\ t.pc = "done" /\ t.creates = 1 /\ t.failedAt = "create"
                   /\ ~t.wrote /\ ~t.cleaned

C9_Witness ==
    \E i \in TaskIds :
       /\ tasks[i].failedAt = "retry" /\ tasks[i].creates = 2
       /\ tasks[i].first = "Quota" /\ tasks[i].cleaned
       /\ Len(hooks[tasks[i].wc]) = HardCap - MaxOtherDeletes
       /\ webhook_cache[tasks[i].wc] = 0


\* C11: two get_or_create_webhook calls for one channel that both miss the
\* cache and find no recognized webhook create exactly one webhook between
\* them and return the same handle (no platform failure, nobody deleting).
C11_NoDuplicateCreation ==
    faults = 0 =>
       \A i, j \in TaskIds :
          (/\ i # j
           /\ tasks[i].wc = tasks[j].wc
           /\ tasks[i].creates > 0 /\ tasks[i].wrote
           /\ tasks[j].creates > 0 /\ tasks[j].wrote)
            => /\ tasks[i].webhook = tasks[j].webhook
               /\ Len(Recognized(hooks[tasks[i].wc])) = 1


\* the first on_message invocation for message id (invocations start in the
\* order of their index)
ArrivalIndex(id) ==
    CHOOSE i \in TaskIds :
       tasks[i].msg.id = id /\ \A j \in 1..(i - 1) : tasks[j].msg.id # id

\* C12: posts of messages of one operator in one channel are sent in the
\* order in which the messages arrived, under every interleaving of the
\* handlers.
C12_ArrivalOrder ==
    \A n1, n2 \in 1..Len(posts) :
       (/\ n1 < n2
        /\ posts[n1].msg # posts[n2].msg
        /\ tasks[ArrivalIndex(posts[n1].msg)].msg.author
             = tasks[ArrivalIndex(posts[n2].msg)].msg.author
        /\ tasks[ArrivalIndex(posts[n1].msg)].msg.channel
             = tasks[ArrivalIndex(posts[n2].msg)].msg.channel)
         => ArrivalIndex(posts[n1].msg) < ArrivalIndex(posts[n2].msg)


\* ------------------------------------------- trigger matching on its own
\* the texts and the stored trigger patterns given to _matches_trigger and
\* _extract_content; a stored trigger is never empty
TriggerAlphabet == {"k", "K", ":", " ", "[", "]", "(", ")"}

TriggerTexts == UNION {[1..n -> TriggerAlphabet] : n \in 0..MaxTriggerTextLen}

Triggers ==
    { <<"[", "k", "]">>, <<"[", "]">>, <<"[", "K", " ", "]">>,
      <<"(", "k", ")">>, <<"(", ")">>,
      <<"k", ":">>, <<"K", ":">>, <<"k">>, <<"K", " ">>, <<":">>,
      <<"[">>, <<"[", "k">>, <<"(", "k", "]">>, <<"k", ")">> }

\* "if self._matches_trigger(message_content, trigger): actual_content =
\* self._extract_content(message_content, trigger)"
MatchTrigger(x, t) ==
    /\ call.op = "idle"
    /\ call' = [Idle EXCEPT !.op = "match", !.text = x, !.trigger = t,
                            !.matched = _matches_trigger(x, t),
                            !.content = _extract_content(x, t)]
    /\ UNCHANGED <<aliases, auto_proxy, botVars, platformVars>>

NextTrigger ==
    \/ call.op = "idle" /\ \E x \in TriggerTexts, t \in Triggers : MatchTrigger(x, t)
    \/ Return

SpecTrigger == InitResolver /\ [][NextTrigger]_vars

\* the trigger is of the bracket class with delimiters open and close
Wrapping(t, open, close) == StartsWith(Lower(t), <<open>>) /\ EndsWith(Lower(t), <<close>>)

\* x is open + s + close for a non-empty s
Wrapped(x, open, close) == Len(x) >= 3 /\ x[1] = open /\ x[Len(x)] = close

\* C13: for a bracketed trigger and every non-empty s, "[" + s + "]" matches
\* and the extracted content is s trimmed, in its original casing; likewise
\* for a parenthesized trigger with "(" and ")"; "[]" and "()" match neither.
C13_WrapLeftInverse ==
    call.op = "match" =>
       /\ (Wrapping(call.trigger, "[", "]") /\ Wrapped(call.text, "[", "]"))
            => /\ call.matched
               /\ call.content = Strip(SubSeq(call.text, 2, Len(call.text) - 1))
       /\ (Wrapping(call.trigger, "(", ")") /\ Wrapped(call.text, "(", ")"))
            => /\ call.matched
               /\ call.content = Strip(SubSeq(call.text, 2, Len(call.text) - 1))
       /\ (/\ Wrapping(call.trigger, "[", "]") \/ Wrapping(call.trigger, "(", ")")
           /\ call.text \in {<<"[", "]">>, <<"(", ")">>})
            => ~call.matched

C13_Witness ==
    /\ call.op = "match"
    /\ call.trigger = <<"[", "k", "]">>
    /\ call.text = <<"[", " ", "K", "]">>
    /\ call.matched
    /\ call.content = <<"K">>

CallOwned == get_user_aliases(aliases, call.user, call.guild)

CallShared == _get_shared_aliases_for_user(aliases, call.user, call.guild)

CallCandidates == CallOwned \o CallShared

\* the positions of the candidates whose trigger matches the text
MatchingCandidates(text) ==
    {n \in 1..Len(CallCandidates) : _matches_trigger(text, CallCandidates[n].trigger)}

\* C15: when no override matches, check_message_for_alias returns the first
\* candidate whose trigger matches, in the order owned personas then shared
\* personas; a matching owned persona beats every shared one and an earlier
\* shorter trigger beats a later longer one.
C15_PriorityOrder ==
    (/\ call.op = "check"
     /\ FirstMatchingOverride(call.text) = 0
     /\ MatchingCandidates(call.text) # {})
      => \E n \in MatchingCandidates(call.text) :
            /\ \A j \in MatchingCandidates(call.text) : n <= j
            /\ call.matched
            /\ call.alias = CallCandidates[n]
            /\ call.content = _extract_content(call.text, CallCandidates[n].trigger)
            /\ call.tier = IF n <= Len(CallOwned) THEN "owned" ELSE "shared"

\* an owned persona with a short trigger wins over a later owned persona with
\* a longer trigger and over a shared persona, all three matching
C15_Witness ==
    /\ call.op = "check" /\ call.user = "u1" /\ call.guild = "g1"
    /\ call.text = <<"m", "a", "a">>
    /\ call.alias = Em
    /\ _matches_trigger(call.text, Ann.trigger)
    /\ _matches_trigger(call.text, Moe.trigger)
    /\ Ann.id \in {CallOwned[n].id : n \in 1..Len(CallOwned)}
    /\ Moe.id \in {CallShared[n].id : n \in 1..Len(CallShared)}


\* the lines of the text of the parse_multiline_aliases call
CallLines == SplitLines(call.text)

RECURSIVE EntriesUpTo(_)
\* how many entries of the call's result come from its first n lines
EntriesUpTo(n) ==
    IF n = 0 THEN 0 ELSE EntriesUpTo(n - 1) + Len(CallLineResult(n).entries)

\* the line matches an override or candidate trigger and leaves content
ExplicitMatch(line) ==
    \/ \E n \in 1..Len(CallOverrides) :
          /\ _matches_trigger(line, CallOverrides[n].personal_trigger)
          /\ Strip(_extract_content(line, CallOverrides[n].personal_trigger)) # <<>>
    \/ \E n \in 1..Len(CallCandidates) :
          /\ _matches_trigger(line, CallCandidates[n].trigger)
          /\ Strip(_extract_content(line, CallCandidates[n].trigger)) # <<>>

\* the line matches no trigger at all
NoTriggerMatch(line) ==
    FirstMatchingOverride(line) = 0 /\ MatchingCandidates(line) = {}

\* line n matched a persona through a trigger, and line n + 1 is non-blank and
\* matches no trigger
StickyCase(n) ==
    /\ ExplicitMatch(Strip(CallLines[n]))
    /\ Strip(CallLines[n + 1]) # <<>>
    /\ NoTriggerMatch(Strip(CallLines[n + 1]))

\* line n + 1 resolves to the persona of line n, with its whole trimmed text
StickyCarries(n) ==
    /\ EntriesUpTo(n) >= 1
    /\ EntriesUpTo(n + 1) = EntriesUpTo(n) + 1
    /\ EntriesUpTo(n + 1) <= Len(call.entries)
    /\ call.entries[EntriesUpTo(n + 1)].alias = call.entries[EntriesUpTo(n)].alias
    /\ call.entries[EntriesUpTo(n + 1)].content = Strip(CallLines[n + 1])

NamedPersonas(u, g, name) ==
    {aliases[n].id : n \in {k \in 1..Len(aliases) :
                              /\ aliases[k].user_id = u /\ aliases[k].guild_id = g
                              /\ Lower(aliases[k].name) = Lower(name)}}

\* C17: enable_auto_proxy with a name that resolves to no persona of the
\* operator returns failure and leaves the sticky state as it was; with a
\* resolvable name the state becomes EnabledWith(that persona); with no name
\* it becomes EnabledUnset.
C17_EnableOutcome ==
    call.op = "enable" =>
       LET named == NamedPersonas(call.user, call.guild, call.text)
           now == StickyState(auto_proxy, call.user, call.guild)
       IN  IF call.text = <<>> THEN call.ok /\ now = "EnabledUnset"
           ELSE IF named = {} THEN ~call.ok /\ auto_proxy = call.before
           ELSE call.ok /\ now \in named

\* a failed enable issued while a persona is sticky
C17_Witness ==
    /\ call.op = "enable" /\ ~call.ok
    /\ call.text = <<"M", "i", "r", "a">> /\ call.user = "u1" /\ call.guild = "g1"
    /\ StickyState(call.before, call.user, call.guild) = Kay.id
    /\ StickyState(auto_proxy, call.user, call.guild) = Kay.id

\* C18: disable_auto_proxy leaves the operator's sticky state Disabled and
\* returns true iff the state was not Disabled before; a text with no
\* trigger match then resolves to no persona.
C18_DisableOutcome ==
    /\ call.op = "disable"
         => /\ StickyState(auto_proxy, call.user, call.guild) = "Disabled"
            /\ call.ok <=> StickyState(call.before, call.user, call.guild) # "Disabled"
    /\ (/\ call.op = "check"
        /\ StickyState(call.before, call.user, call.guild) = "Disabled"
        /\ NoTriggerMatch(call.text))
         => ~call.matched

\* C18 without the returned flag
C18_DisabledResolvesNothing ==
    /\ call.op = "disable" => StickyState(auto_proxy, call.user, call.guild) = "Disabled"
    /\ (/\ call.op = "check"
        /\ StickyState(call.before, call.user, call.guild) = "Disabled"
        /\ NoTriggerMatch(call.text))
         => ~call.matched


\* the webhook sends completed so far for persona a
SuccessfulSends(a) == Cardinality({n \in 1..Len(posts) : posts[n].alias = a})

\* C19: a persona's message_count grows by exactly one for each
\* send_as_character call whose webhook send succeeded and is unchanged by a
\* call that fails in the webhook lookup, in the creation or in the send.
C19_CountedPerSuccess ==
    \A a \in AliasIds : message_count[a] = SuccessfulSends(a)

\* the count never exceeds the successful sends
C19_CountedOnlyOnSuccess ==
    \A a \in AliasIds : message_count[a] <= SuccessfulSends(a)


\* message m is ordinary chatter for the resolver in the current state: no
\* persona resolves (neither per line nor for the whole text) and the text
\* matches no known trigger
Chatter(m) ==
    /\ ~m.bot /\ m.guild # NoGuild /\ Strip(m.content) # <<>>
    /\ Len(parse_multiline_aliases(auto_proxy, aliases, m).entries) <= 1
    /\ ~check_message_for_alias(auto_proxy, aliases, m).matched
    /\ ~contains_any_alias_trigger(aliases, m.content, m.author, m.guild)

\* C20: an on_message invocation for ordinary chatter returns at once: the
\* original is not deleted, nothing is sent or posted, and the message id is
\* not in processing_messages afterwards.
C20_ChatterUntouched ==
    [][\A i \in TaskIds :
          (tasks[i].pc = "idle" /\ tasks'[i].pc # "idle" /\ Chatter(tasks'[i].msg))
            => /\ tasks'[i].pc = "done"
               /\ tasks'[i].del = "none" /\ tasks'[i].sends = 0
               /\ deleted' = deleted /\ posts' = posts /\ notices' = notices
               /\ hooks' = hooks /\ auto_proxy' = auto_proxy
               /\ tasks'[i].msg.id \notin processing_messages']_vars

C20_Witness ==
    \E i \in TaskIds :
       /\ tasks[i].pc = "done" /\ tasks[i].exit = "no_match" /\ tasks[i].acquired
       /\ tasks[i].msg.content = <<"h", "i", " ", "a">>
       /\ ~contains_any_alias_trigger(aliases, tasks[i].msg.content,
                                      tasks[i].msg.author, tasks[i].msg.guild)
       /\ tasks[i].del = "none" /\ tasks[i].sends = 0
       /\ tasks[i].msg.id \notin processing_messages
       /\ tasks[i].msg.id \notin deleted


\* ------------------------------------------------ claims on multi-line dispatch
\* the personas (by id) that a list of splitter entries names
PersonaIds(entries) == {entries[n].alias.id : n \in 1..Len(entries)}

\* the (persona id, content) pairs of the splitter entries, in line order
EntryPairs(entries) ==
    [n \in 1..Len(entries) |-> <<entries[n].alias.id, entries[n].content>>]

\* the (persona id, content) pairs of the posts made for message id, in order
PostPairs(id) ==
    LET mine == SelectSeq(posts, LAMBDA p : p.msg = id)
    IN  [n \in 1..Len(mine) |-> <<mine[n].alias, mine[n].content>>]

RECURSIVE IsSubseq(_, _)
\* a can be got from b by leaving elements out
IsSubseq(a, b) ==
    IF a = <<>> THEN TRUE
    ELSE IF b = <<>> THEN FALSE
    ELSE IF Head(a) = Head(b) THEN IsSubseq(Tail(a), Tail(b))
    ELSE IsSubseq(a, Tail(b))

\* no invocation for message id holds the guard any more
Released(id) ==
    (~\E j \in TaskIds : Running(j) /\ tasks[j].acquired /\ tasks[j].msg.id = id)
      => id \notin processing_messages

\* C21: when the splitter output of a message names two or more distinct
\* personas, on_message deletes the original once, then attempts one send per
\* entry in line order, whether or not earlier sends failed, and has released
\* the guard entry when it returns.
C21_MultiLineDispatch ==
    \A i \in TaskIds :
       (/\ tasks[i].pc = "done"
        /\ Cardinality(PersonaIds(tasks[i].entries)) > 1)
         => /\ tasks[i].del # "none"
            /\ tasks[i].sends = Len(tasks[i].entries)
            /\ IsSubseq(PostPairs(tasks[i].msg.id), EntryPairs(tasks[i].entries))
            /\ Released(tasks[i].msg.id)

\* the same for the invocations that took the multi-line path and whose
\* delete succeeded (a send that fails after posting, in the usage update,
\* leaves its post)
C21_DispatchAfterDelete ==
    \A i \in TaskIds :
       (/\ tasks[i].pc = "done"
        /\ tasks[i].kind = "multi"
        /\ tasks[i].del = "ok")
         => /\ tasks[i].sends = Len(tasks[i].entries)
            /\ IsSubseq(PostPairs(tasks[i].msg.id), EntryPairs(tasks[i].entries))
            /\ Len(PostPairs(tasks[i].msg.id)) >= tasks[i].sends - tasks[i].failedSends
            /\ Released(tasks[i].msg.id)

\* a multi-line dispatch whose first send failed and whose second was posted
C21_Witness ==
    \E i \in TaskIds :
       /\ tasks[i].pc = "done" /\ tasks[i].kind = "multi" /\ tasks[i].del = "ok"
       /\ tasks[i].sends = 2 /\ tasks[i].failedSends = 1
       /\ PostPairs(tasks[i].msg.id) = <<EntryPairs(tasks[i].entries)[2]>>

\* C22: on_message takes the multi-line path whenever the splitter output
\* holds entries of two different personas (different persona ids), also when
\* those personas have the same display name.
C22_DistinctPersonasDispatch ==
    \A i \in TaskIds :
       (/\ tasks[i].acquired
        /\ tasks[i].pc # "idle"
        /\ Cardinality(PersonaIds(tasks[i].entries)) > 1)
         => tasks[i].kind = "multi"

\* the path is taken when the entries carry two different display names
C22_DistinctNamesDispatch ==
    \A i \in TaskIds :
       (/\ tasks[i].acquired
        /\ tasks[i].pc # "idle"
        /\ Len(tasks[i].entries) > 1)
         => (tasks[i].kind = "multi"
               <=> Cardinality(UniqueCharacters(tasks[i].entries)) > 1)


\* -------------------------------------------- claims on the cached webhook
\* C23: when get_or_create_webhook finds a cached webhook and the probe
\* (webhook.fetch) reports NotFound, the cache entry is removed and the call
\* goes on to list the channel's webhooks, so it never returns the webhook
\* whose probe reported NotFound; when the probe succeeds the cached webhook
\* is returned and nothing is listed or created.
C23_StaleEvicted ==
    [][\A i \in TaskIds :
          LET t == tasks'[i]
          IN  /\ (tasks[i].pc = "fetch" /\ t.probe = "NotFound")
                   => (webhook_cache'[t.wc] = 0 /\ t.pc = "list")
              /\ (t.probe = "NotFound" /\ t.failedAt # "fetch")
                   => t.webhook # t.probed
              /\ t.probe = "ok"
                   => (t.webhook = t.probed /\ t.creates = 0 /\ ~t.wrote)]_vars

\* the parts of C23 on what the call returns
C23_StaleNeverReturned ==
    \A i \in TaskIds :
       LET t == tasks[i]
       IN  /\ (t.probe = "NotFound" /\ t.failedAt # "fetch") => t.webhook # t.probed
           /\ t.probe = "NotFound" => webhook_cache[t.wc] # t.probed
           /\ t.probe = "ok" => (t.webhook = t.probed /\ t.creates = 0 /\ ~t.wrote)

\* C23 for a call whose probe no other call's eviction overtakes
C23_EvictedWhenStillCached ==
    [][\A i \in TaskIds :
          (/\ tasks[i].pc = "fetch" /\ tasks'[i].probe = "NotFound"
           /\ webhook_cache[tasks[i].wc] # 0)
            => (webhook_cache'[tasks[i].wc] = 0 /\ tasks'[i].pc = "list")]_vars


\* ------------------------------------------ claims on reuse and cleanup
\* the allow-list of section 4.4
C24_AllowList == {"Quest Keeper RP", "Character Alias Bot"}

\* the webhooks of a listing whose name is on that list
C24_Listed(hs) == SelectSeq(hs, LAMBDA h : h.name \in C24_AllowList)

\* every call made so far started when no other call was in flight
SequentialCalls == \A j \in TaskIds : tasks'[j].pc # "idle" => tasks'[j].alone

\* C24: when listing the channel's webhooks succeeds and the listing holds a
\* webhook with a name on the allow-list, get_or_create_webhook caches and
\* returns it and creates none; so sequential calls never add to the
\* allow-listed webhooks of a channel that has one.
C24_RecognizedReused ==
    [][/\ \A i \in TaskIds :
             (/\ tasks[i].pc = "list" /\ tasks'[i].pc # "list"
              /\ faults' = faults
              /\ C24_Listed(hooks[tasks[i].wc]) # <<>>)
               => /\ tasks'[i].pc = "send"
                  /\ tasks'[i].webhook = C24_Listed(hooks[tasks[i].wc])[1].id
                  /\ webhook_cache'[tasks[i].wc] = tasks'[i].webhook
                  /\ tasks'[i].creates = 0
                  /\ hooks' = hooks
       /\ (faults' = 0 /\ SequentialCalls)
            => \A c \in Channels :
                  C24_Listed(hooks[c]) # <<>>
                    => Len(C24_Listed(hooks'[c])) <= Len(C24_Listed(hooks[c]))]_vars

\* two sequential calls after a restart were both served by the one
\* "Character Alias Bot" webhook of the channel
C24_Witness ==
    /\ faults = 0
    /\ hooks["c1"] = << [id |-> 1, name |-> "Character Alias Bot"] >>
    /\ \A i \in 1..2 :
          /\ tasks[i].pc = "done" /\ tasks[i].result = "ok" /\ tasks[i].alone
          /\ tasks[i].webhook = 1 /\ tasks[i].creates = 0
          /\ tasks[i].probe = IF i = 1 THEN "none" ELSE "ok"



\* the ids of the webhooks of listing whose name is (is not) on the allow-list
ListedIds(listing) == {listing[n].id : n \in {m \in 1..Len(listing) :
                                                 listing[m].name \in C24_AllowList}}

UnlistedIds(listing) == {listing[n].id : n \in {m \in 1..Len(listing) :
                                                   listing[m].name \notin C24_AllowList}}

\* the ids in a sequence of ids
Planned(worklist) == {worklist[n] : n \in 1..Len(worklist)}

\* C25: _cleanup_old_webhooks deletes every allow-listed webhook except one,
\* and deletes other webhooks only if the channel is still at or above the
\* hard cap once those allow-listed webhooks are removed, and then at most
\* MaxOtherDeletes of them.
C25_CleanupBounded ==
    [][\A i \in TaskIds :
          (tasks[i].pc = "cl_list" /\ tasks'[i].pc \in {"cl_del", "retry"})
            => LET listing == hooks[tasks[i].wc]
                   plan == Planned(tasks'[i].worklist)
                   own == plan \cap ListedIds(listing)
                   other == plan \cap UnlistedIds(listing)
               IN  /\ plan \subseteq HookIds(listing)
                   /\ ListedIds(listing) # {}
                        => Cardinality(ListedIds(listing) \ own) = 1
                   /\ other # {} => Len(listing) - Cardinality(own) >= HardCap
                   /\ Cardinality(other) <= MaxOtherDeletes]_vars

\* the same with the hard cap tested on the listing as it was fetched
C25_CleanupBoundedOnListing ==
    [][\A i \in TaskIds :
          (tasks[i].pc = "cl_list" /\ tasks'[i].pc \in {"cl_del", "retry"})
            => LET listing == hooks[tasks[i].wc]
                   plan == Planned(tasks'[i].worklist)
                   own == plan \cap ListedIds(listing)
                   other == plan \cap UnlistedIds(listing)
               IN  /\ plan \subseteq HookIds(listing)
                   /\ ListedIds(listing) # {}
                        => Cardinality(ListedIds(listing) \ own) = 1
                   /\ other # {} <=> (Len(listing) >= HardCap /\ UnlistedIds(listing) # {})
                   /\ Cardinality(other) <= MaxOtherDeletes]_vars


\* ------------------------------------------------ claims on thread routing
Threads == {c \in Channels : Parent(c) # "none"}

\* C26: for a target channel that is a thread, send_as_character gets the
\* webhook of the parent channel and sends with the thread as thread target;
\* webhook_cache has keys of parent channels only.
C26_ThreadRouting ==
    /\ \A c \in Threads : webhook_cache[c] = 0 /\ hooks[c] = <<>>
    /\ \A i \in TaskIds :
          (tasks[i].pc # "idle" /\ tasks[i].channel \in Threads)
            => /\ tasks[i].wc = Parent(tasks[i].channel)
               /\ (tasks[i].pc = "done" /\ tasks[i].failedAt \in {"none", "count"})
                    => \E n \in 1..Len(posts) :
                          /\ posts[n].thread = tasks[i].channel
                          /\ posts[n].channel = Parent(tasks[i].channel)
                          /\ posts[n].webhook = tasks[i].webhook
    /\ \A n \in 1..Len(posts) :
          /\ posts[n].channel \notin Threads
          /\ posts[n].thread # "none" => posts[n].channel = Parent(posts[n].thread)

\* a send into the thread t1 went out through a webhook created on, and
\* cached for, the parent c1
C26_Witness ==
    \E i \in TaskIds :
       /\ tasks[i].pc = "done" /\ tasks[i].channel = "t1" /\ tasks[i].result = "ok"
       /\ tasks[i].creates = 1
       /\ webhook_cache["c1"] = tasks[i].webhook
       /\ tasks[i].webhook \in HookIds(hooks["c1"])
       /\ posts[Len(posts)].thread = "t1" /\ posts[Len(posts)].channel = "c1"


\* ------------------------------------------- claims on the duplicate guard
\* C27: an on_message invocation that finds its message id in
\* processing_messages and returns as a no-op leaves processing_messages as
\* it was: the id stays in it while the invocation that added it runs.
C27_DuplicateLeavesGuard ==
    [][\A i \in TaskIds :
          (tasks[i].pc = "idle" /\ tasks'[i].exit = "duplicate")
            => /\ processing_messages' = processing_messages
               /\ tasks'[i].msg.id \in processing_messages']_vars

\* an invocation past the guard finds its id in processing_messages as long
\* as no duplicate of its message was short-circuited
C27_GuardHeldWithoutDuplicate ==
    \A i \in TaskIds :
       (/\ Running(i) /\ tasks[i].acquired
        /\ \A j \in TaskIds : tasks[j].msg.id = tasks[i].msg.id
                                => tasks[j].exit # "duplicate")
         => tasks[i].msg.id \in processing_messages


\* ------------------------------------------- claims on the sticky persona
\* the message of the call in progress
CallMessage == Message(call.user, call.guild, call.text)

\* the splitter ran on a multi-line message and its output was not dispatched
\* for having fewer than two entries
SplitDiscarded ==
    /\ call.op = "resolve"
    /\ Len(SplitLines(call.text)) > 1
    /\ Len(call.entries) < 2

\* C28: when the splitter's output for a multi-line message is not dispatched
\* (fewer than two entries), check_message_for_alias resolves the message as
\* it would have with the sticky state of before the message.
C28_DiscardedSplitNoEffect ==
    SplitDiscarded
      => LET r == check_message_for_alias(call.before, aliases, CallMessage)
         IN  call.matched = r.matched /\ call.alias = r.alias

\* the same for a message that a trigger, and not the sticky persona,
\* resolves
C28_TriggerMatchUnaffected ==
    (SplitDiscarded /\ call.tier # "sticky")
      => LET r == check_message_for_alias(call.before, aliases, CallMessage)
         IN  call.matched = r.matched /\ call.alias = r.alias


\* --------------------------------------------------------- persona deletion
MaxDeletes == 2

\* AliasManager.delete_alias: the first row of the owner with that name
\* (ignoring case) is removed; the returned flag and the table left behind
delete_alias(als, user_id, guild_id, name) ==
    LET alias == get_alias_by_name(als, user_id, guild_id, name)
    IN  IF alias = NoAlias
          THEN [ok |-> FALSE, aliases |-> als]
          ELSE [ok |-> TRUE, aliases |-> SelectSeq(als, LAMBDA a : a.id # alias.id)]

\* the /alias delete command
DeleteAlias(u, g, name) ==
    /\ call.op = "idle"
    /\ Len(aliases) > Len(InitialAliases) - MaxDeletes
    /\ LET r == delete_alias(aliases, u, g, name)
       IN  /\ aliases' = r.aliases
           /\ call' = [Idle EXCEPT !.op = "delete", !.user = u, !.guild = g,
                                   !.text = name, !.before = auto_proxy, !.ok = r.ok]
    /\ UNCHANGED <<auto_proxy, botVars, platformVars>>

\* the messages sent while personas are deleted
StoreTexts ==
    { <<"h", "i", " ", "a">>,
      <<"K", ":", "h", "i">>,
      <<"r", ":", "h", "i">>,
      <<"m", "a", "a">> }

NextStore ==
    \/ \E u \in Users, g \in Guilds, t \in StoreTexts : CheckMessage(u, g, t)
    \/ \E u \in Users, g \in Guilds, n \in AliasNames : EnableAutoProxy(u, g, n)
    \/ \E u \in Users, g \in Guilds : DisableAutoProxy(u, g)
    \/ \E u \in Users, g \in Guilds, n \in AliasNames \ {<<>>} : DeleteAlias(u, g, n)
    \/ Return

SpecStore == InitResolver /\ [][NextStore]_vars

\* the ids of the personas in the store
StoredIds == {aliases[n].id : n \in 1..Len(aliases)}

\* C29: whenever an operator's sticky state is EnabledWith(p), p is a persona
\* in the store; once delete_alias has removed p, the sticky fallback (tier 4)
\* of check_message_for_alias does not return p.
C29_StickyPersonaExists ==
    /\ \A u \in Users :
          (auto_proxy[u].present /\ auto_proxy[u].alias # NoAlias)
            => auto_proxy[u].alias.id \in StoredIds
    /\ (call.op = "check" /\ call.tier = "sticky") => call.alias.id \in StoredIds

\* the sticky persona is one the store holds or held
C29_StickyPersonaWasStored ==
    /\ \A u \in Users :
          (auto_proxy[u].present /\ auto_proxy[u].alias # NoAlias)
            => \E n \in 1..Len(InitialAliases) : InitialAliases[n] = auto_proxy[u].alias
    /\ aliases = InitialAliases => C29_StickyPersonaExists


\* ------------------------------------------- claims on atomic resolution
\* invocation i starts in this step
Starts(i) == tasks[i].pc = "idle" /\ tasks'[i].pc # "idle"

\* C30: on_message acquires the guard, splits and resolves (every read and
\* write of the sticky state) before it first suspends: the sticky state
\* changes only in the step that starts an invocation, that step leaves the
\* state the splitter and the resolver produce from the state they found, and
\* the invocation holds the guard when it suspends; so a later-started
\* handler resolves against the finished transition of an earlier one,
\* however their deletes and sends interleave.
C30_ResolutionAtomic ==
    [][/\ auto_proxy' # auto_proxy => \E i \in TaskIds : Starts(i)
       /\ \A i \in TaskIds :
             (Starts(i) /\ tasks'[i].acquired /\ tasks'[i].exit # "exception")
               => LET m == tasks'[i].msg
                      multi == parse_multiline_aliases(auto_proxy, aliases, m)
                      single == check_message_for_alias(multi.auto_proxy, aliases, m)
                  IN  /\ Running(i)' => m.id \in processing_messages'
                      /\ IF Len(multi.entries) > 1
                           THEN /\ auto_proxy' = multi.auto_proxy
                                /\ Running(i)' => tasks'[i].entries = multi.entries
                           ELSE /\ auto_proxy' = single.auto_proxy
                                /\ Running(i)' <=> single.matched
                                /\ single.matched
                                     => /\ tasks'[i].alias = single.alias
                                        /\ tasks'[i].content = single.content]_vars

\* two handlers of u1 are in flight; the one started first has not finished
\* its delete, and the later one, whose message has no trigger, was resolved
\* to the persona the first one made sticky
C30_Witness ==
    /\ tasks[1].pc = "delete" /\ tasks[1].msg.id = "m1" /\ tasks[1].alias = Kay
    /\ tasks[2].msg.id = "m4" /\ Running(2) /\ tasks[2].alias = Kay
    /\ tasks[2].pc = "send"
    /\ auto_proxy["u1"].alias = Kay

=============================================================================
